---- MODULE Spec2Model ----
(***************************************************************************)
(* Model of icity_export.py: the page-to-record extraction and aggregation *)
(* pipeline (extract_entries_from_page, scrape_all), the date resolver     *)
(* (parse_entry_datetime_parts) and the exporter (write_outputs,           *)
(* write_split_markdown) as driven by main.                                *)
(*                                                                         *)
(* Text is modelled as a sequence of characters; each character is a       *)
(* one-element string.  The two CJK characters of the date heading are     *)
(* written YUE (U+6708) and RI (U+65E5); GLYPH is the private-use icon    *)
(* character U+EA0A the site puts into date headings, NBSP is U+00A0.      *)
(***************************************************************************)
EXTENDS Integers, Sequences, FiniteSets, TLC

\* ------------------------------------------------------------------ text
YUE == "yue"
RI == "ri"
NL == "nl"
NBSP == "nbsp"
GLYPH == "glyph"

Digits == {"0", "1", "2", "3", "4", "5", "6", "7", "8", "9"}

DigitVal(c) ==
    CASE c = "0" -> 0 [] c = "1" -> 1 [] c = "2" -> 2 [] c = "3" -> 3
      [] c = "4" -> 4 [] c = "5" -> 5 [] c = "6" -> 6 [] c = "7" -> 7
      [] c = "8" -> 8 [] c = "9" -> 9

DigitChar(n) ==
    CASE n = 0 -> "0" [] n = 1 -> "1" [] n = 2 -> "2" [] n = 3 -> "3"
      [] n = 4 -> "4" [] n = 5 -> "5" [] n = 6 -> "6" [] n = 7 -> "7"
      [] n = 8 -> "8" [] n = 9 -> "9"

\* code point order of the characters a resolved hm can hold
Ord(c) == IF c \in Digits THEN 48 + DigitVal(c) ELSE IF c = ":" THEN 58 ELSE 0

\* \d and \s of the re module, over the model's alphabet
IsDigit(c) == c \in Digits
IsSpace(c) == c \in {" ", NL, NBSP}

RECURSIVE ToInt(_)
\* int(text) of a run of decimal digits
ToInt(s) ==
    IF s = <<>> THEN 0
    ELSE 10 * ToInt(SubSeq(s, 1, Len(s) - 1)) + DigitVal(s[Len(s)])

RECURSIVE ToDigits(_)
ToDigits(n) ==
    IF n < 10 THEN <<DigitChar(n)>>
    ELSE Append(ToDigits(n \div 10), DigitChar(n % 10))

\* f"{n:02d}"
Pad2(n) == IF n < 10 THEN <<"0", DigitChar(n)>> ELSE ToDigits(n)

\* f"{n:04d}"
Pad4(n) ==
    LET d == ToDigits(n)
    IN  IF Len(d) >= 4 THEN d
        ELSE [i \in 1..(4 - Len(d)) |-> "0"] \o d

AllDigits(s, i, n) ==
    /\ i >= 1
    /\ i + n - 1 <= Len(s)
    /\ \A k \in i..(i + n - 1) : IsDigit(s[k])

\* number of consecutive \s characters of s starting at position i
RECURSIVE SpaceRun(_, _)
SpaceRun(s, i) ==
    IF i <= Len(s) /\ IsSpace(s[i]) THEN 1 + SpaceRun(s, i + 1) ELSE 0

\* Python str comparison (code point order) on resolved hm strings
RECURSIVE StrLess(_, _)
StrLess(a, b) ==
    IF a = <<>> THEN b # <<>>
    ELSE IF b = <<>> THEN FALSE
    ELSE IF Ord(a[1]) # Ord(b[1]) THEN Ord(a[1]) < Ord(b[1])
    ELSE StrLess(Tail(a), Tail(b))

\* ---------------------------------------------------------------- record
\* Python's None where the other values are records
None == [none |-> TRUE]
\* Optional[int]: <<>> is None, <<n>> is the integer n
NoInt == <<>>
Some(n) == <<n>>

Entry(id, date_label, datetime_local, time_label, text) ==
    [id |-> id, date_label |-> date_label, datetime_local |-> datetime_local,
     time_label |-> time_label, text |-> text]

\* ---------------------------------------------------------- DateResolver
\* re.match(r"^(\d{4})-(\d{2})-(\d{2})\s+(\d{2}:\d{2})$", s): the position
\* of the HH:MM group, or 0 when the pattern does not match.  $ also
\* matches just before a newline that ends the string.
LocalMatch(s) ==
    IF /\ Len(s) >= 16
       /\ AllDigits(s, 1, 4) /\ s[5] = "-"
       /\ AllDigits(s, 6, 2) /\ s[8] = "-"
       /\ AllDigits(s, 9, 2)
       /\ SpaceRun(s, 11) >= 1
    THEN LET t == 11 + SpaceRun(s, 11)
         IN  IF /\ AllDigits(s, t, 2)
                /\ t + 4 <= Len(s)
                /\ s[t + 2] = ":"
                /\ AllDigits(s, t + 3, 2)
                /\ \/ Len(s) = t + 4
                   \/ Len(s) = t + 5 /\ s[t + 5] = NL
             THEN t
             ELSE 0
    ELSE 0

\* one attempt of r"(\d{1,2})月\s*(\d{1,2})日\s*(\d{4})" at position i:
\* <<month, day, year>> as digit runs, or <<>> without a match
DateMatchAt(s, i) ==
    LET a == IF AllDigits(s, i, 2) /\ i + 2 <= Len(s) /\ s[i + 2] = YUE THEN 2
             ELSE IF AllDigits(s, i, 1) /\ i + 1 <= Len(s) /\ s[i + 1] = YUE THEN 1
             ELSE 0
    IN  IF a = 0 THEN <<>>
        ELSE
          LET j == i + a + 1 + SpaceRun(s, i + a + 1)
              b == IF AllDigits(s, j, 2) /\ j + 2 <= Len(s) /\ s[j + 2] = RI THEN 2
                   ELSE IF AllDigits(s, j, 1) /\ j + 1 <= Len(s) /\ s[j + 1] = RI THEN 1
                   ELSE 0
          IN  IF b = 0 THEN <<>>
              ELSE
                LET k == j + b + 1 + SpaceRun(s, j + b + 1)
                IN  IF AllDigits(s, k, 4)
                    THEN <<SubSeq(s, i, i + a - 1), SubSeq(s, j, j + b - 1),
                           SubSeq(s, k, k + 3)>>
                    ELSE <<>>

\* re.search: the match at the leftmost position that has one
DateSearch(s) ==
    LET hits == {i \in 1..Len(s) : DateMatchAt(s, i) # <<>>}
    IN  IF hits = {} THEN <<>>
        ELSE DateMatchAt(s, CHOOSE i \in hits : \A k \in hits : i <= k)

\* one attempt of r"(\d{1,2}):(\d{2})" at position i: <<hh, mm>> or <<>>
TimeMatchAt(s, i) ==
    IF AllDigits(s, i, 2) /\ i + 2 <= Len(s) /\ s[i + 2] = ":" /\ AllDigits(s, i + 3, 2)
    THEN <<SubSeq(s, i, i + 1), SubSeq(s, i + 3, i + 4)>>
    ELSE IF AllDigits(s, i, 1) /\ i + 1 <= Len(s) /\ s[i + 1] = ":" /\ AllDigits(s, i + 2, 2)
    THEN <<SubSeq(s, i, i), SubSeq(s, i + 2, i + 3)>>
    ELSE <<>>

TimeSearch(s) ==
    LET hits == {i \in 1..Len(s) : TimeMatchAt(s, i) # <<>>}
    IN  IF hits = {} THEN <<>>
        ELSE TimeMatchAt(s, CHOOSE i \in hits : \A k \in hits : i <= k)

Resolved(year, month, day, hm) ==
    [year |-> year, month |-> month, day |-> day, hm |-> hm]

\* tier 1 alone: the four groups of the datetime_local pattern
TierOne(s) ==
    LET t == LocalMatch(s)
    IN  Resolved(ToInt(SubSeq(s, 1, 4)), ToInt(SubSeq(s, 6, 7)),
                 ToInt(SubSeq(s, 9, 10)), SubSeq(s, t, t + 4))

\* tier 2 alone: date heading plus time fragment, hour and minute padded
TierTwo(date_match, time_match) ==
    Resolved(ToInt(date_match[3]), ToInt(date_match[1]), ToInt(date_match[2]),
             Pad2(ToInt(time_match[1])) \o <<":">> \o Pad2(ToInt(time_match[2])))

\* the resolver with its two tiers tried in the other order
parse_labels_first(entry) ==
    LET date_match == DateSearch(entry.date_label)
        time_match == TimeSearch(entry.time_label)
    IN  IF date_match # <<>> /\ time_match # <<>>
        THEN TierTwo(date_match, time_match)
        ELSE IF entry.datetime_local # <<>> /\ LocalMatch(entry.datetime_local) # 0
        THEN TierOne(entry.datetime_local)
        ELSE None

parse_entry_datetime_parts(entry) ==
    IF entry.datetime_local # <<>> /\ LocalMatch(entry.datetime_local) # 0
    THEN TierOne(entry.datetime_local)
    ELSE
      LET date_match == DateSearch(entry.date_label)
          time_match == TimeSearch(entry.time_label)
      IN  IF date_match # <<>> /\ time_match # <<>>
          THEN TierTwo(date_match, time_match)
          ELSE None

\* ------------------------------------------------------------ clean_text
RECURSIVE ReplaceChar(_, _, _)
\* str.replace(old, new) for single characters
ReplaceChar(s, old, new) ==
    IF s = <<>> THEN <<>>
    ELSE <<IF s[1] = old THEN new ELSE s[1]>> \o ReplaceChar(Tail(s), old, new)

RECURSIVE CollapseSpace(_)
\* re.sub(r"\s+", " ", s)
CollapseSpace(s) ==
    IF s = <<>> THEN <<>>
    ELSE IF IsSpace(s[1])
         THEN <<" ">> \o CollapseSpace(SubSeq(s, 1 + SpaceRun(s, 1), Len(s)))
         ELSE <<s[1]>> \o CollapseSpace(Tail(s))

RECURSIVE Strip(_)
\* str.strip()
Strip(s) ==
    IF s = <<>> THEN <<>>
    ELSE IF IsSpace(s[1]) THEN Strip(Tail(s))
    ELSE IF IsSpace(s[Len(s)]) THEN Strip(SubSeq(s, 1, Len(s) - 1))
    ELSE s

clean_text(s) == Strip(CollapseSpace(ReplaceChar(s, NBSP, " ")))

\* ---------------------------------------------------------- PageExtractor
\* One <li> of ul.posts-list: its class list, its text (used for a day-cut
\* heading), whether it holds an a.timeago anchor in div.meta and the href
\* of that anchor, the time.hours tag inside the anchor (NoTime without
\* the tag; else its title attribute and its text) and the text of its
\* comment node.
Li(classes, text, anchor, href, time, comment) ==
    [classes |-> classes, text |-> text, anchor |-> anchor, href |-> href,
     time |-> time, comment |-> comment]

TimeTag(title, text) == [present |-> TRUE, title |-> title, text |-> text]
NoTime == [present |-> FALSE, title |-> <<>>, text |-> <<>>]

IsAlnum(c) == c \in Digits \cup {"a", "b"}

RECURSIVE AlnumRun(_, _)
AlnumRun(s, i) ==
    IF i <= Len(s) /\ IsAlnum(s[i]) THEN 1 + AlnumRun(s, i + 1) ELSE 0

StartsWithA(s, i) ==
    i + 2 <= Len(s) /\ s[i] = "/" /\ s[i + 1] = "a" /\ s[i + 2] = "/"

\* match = re.search(r"/a/([A-Za-z0-9]+)", href); match.group(1) if match else href
EntryId(href) ==
    LET hits == {i \in 1..Len(href) : StartsWithA(href, i) /\ AlnumRun(href, i + 3) >= 1}
    IN  IF hits = {} THEN href
        ELSE LET i == CHOOSE j \in hits : \A k \in hits : j <= k
             IN  SubSeq(href, i + 3, i + 2 + AlnumRun(href, i + 3))

\* li.select_one("div.meta a.timeago[href^='/a/']")
MetaTimeA(li) == li.anchor /\ StartsWithA(li.href, 1)

ParseDiary(li, current_date) ==
    Entry(EntryId(li.href),
          current_date,
          IF li.time.present THEN li.time.title ELSE <<>>,
          IF li.time.present THEN clean_text(li.time.text) ELSE <<>>,
          li.comment)

RECURSIVE ExtractItems(_, _)
\* the loop leaving the page at a diary item without its link
ExtractItemsUntilUnlinked(items, current_date) ==
    IF items = <<>> THEN <<>>
    ELSE IF "day-cut" \in Head(items).classes
    THEN ExtractItems(Tail(items), clean_text(ReplaceChar(Head(items).text, GLYPH, " ")))
    ELSE IF "diary" \notin Head(items).classes
    THEN ExtractItems(Tail(items), current_date)
    ELSE IF ~MetaTimeA(Head(items))
    THEN <<>>
    ELSE <<ParseDiary(Head(items), current_date)>> \o ExtractItems(Tail(items), current_date)

\* the loop keeping the first date heading of the page for all its items
ExtractItemsFirstHeading(items, current_date) ==
    IF items = <<>> THEN <<>>
    ELSE IF "day-cut" \in Head(items).classes
    THEN ExtractItems(Tail(items),
                      IF current_date = <<>>
                      THEN clean_text(ReplaceChar(Head(items).text, GLYPH, " "))
                      ELSE current_date)
    ELSE IF "diary" \notin Head(items).classes
    THEN ExtractItems(Tail(items), current_date)
    ELSE IF ~MetaTimeA(Head(items))
    THEN ExtractItems(Tail(items), current_date)
    ELSE <<ParseDiary(Head(items), current_date)>> \o ExtractItems(Tail(items), current_date)

\* the loop over the direct <li> children, current_date carried along
ExtractItems(items, current_date) ==
    IF items = <<>> THEN <<>>
    ELSE LET li == Head(items)
         IN  IF "day-cut" \in li.classes
             THEN ExtractItems(Tail(items), clean_text(ReplaceChar(li.text, GLYPH, " ")))
             ELSE IF "diary" \notin li.classes
             THEN ExtractItems(Tail(items), current_date)
             ELSE IF ~MetaTimeA(li)
             THEN ExtractItems(Tail(items), current_date)
             ELSE <<ParseDiary(li, current_date)>> \o ExtractItems(Tail(items), current_date)

\* A fetched document: whether the transport answered without an error
\* status, which of the three login-page phrases its text holds, whether it
\* holds a ul.posts-list and that list's items.
Html(ok, phrases, has_list, items) ==
    [ok |-> ok, phrases |-> phrases, has_list |-> has_list, items |-> items]

extract_entries_from_page(html) ==
    IF ~html.has_list THEN <<>> ELSE ExtractItems(html.items, <<>>)

LoginPhrases == {"welcome", "user_or_email", "sign_in"}

\* the signature test asking for a phrase the login page does not hold
is_login_page_other_phrase(html) == (LoginPhrases \cup {"sign_up"}) \subseteq html.phrases

is_login_page(html) == LoginPhrases \subseteq html.phrases

\* -------------------------------------------------------------- Aggregator
RECURSIVE DedupFrom(_, _)
\* the seen-set loop that ends scrape_all
DedupFrom(all, seen) ==
    IF all = <<>> THEN <<>>
    ELSE IF Head(all).id \in seen THEN DedupFrom(Tail(all), seen)
    ELSE <<Head(all)>> \o DedupFrom(Tail(all), seen \cup {Head(all).id})

RECURSIVE DedupKeepLast(_)
\* a dedup that keeps the last record of an id instead of the first
DedupKeepLast(all) ==
    IF all = <<>> THEN <<>>
    ELSE IF \E i \in 2..Len(all) : all[i].id = Head(all).id
         THEN DedupKeepLast(Tail(all))
         ELSE <<Head(all)>> \o DedupKeepLast(Tail(all))

Dedup(all) == DedupFrom(all, {})

\* the URL requested for a page number: posts_url, or posts_url?page=<n>
\* the URL with the page parameter also on page 1
PageUrlAlwaysNumbered(posts_url, n) == <<posts_url, "?page=", n>>

PageUrl(posts_url, n) ==
    IF n = 1 THEN <<posts_url>> ELSE <<posts_url, "?page=", n>>

\* ---------------------------------------------------------------- Exporter
\* A file of the output directory: as the run found it, opened for writing
\* and not completed, or completely written with the given content.
FileOld == [state |-> "old"]
FilePartial == [state |-> "partial"]
FileDone(data) == [state |-> "complete", data |-> data]

\* json.dump([asdict(e) for e in entries], ...): one object per entry
JsonDump(entries) == [i \in 1..Len(entries) |-> entries[i]]

\* the DateTime line of a TXT block: datetime_local first, else the two
\* labels joined and stripped, else no line (<<>>)
TxtDateTime(entry) ==
    IF entry.datetime_local # <<>>
    THEN <<"D", "a", "t", "e", "T", "i", "m", "e", ":", " ">> \o entry.datetime_local
    ELSE IF entry.date_label # <<>> \/ entry.time_label # <<>>
    THEN Strip(<<"D", "a", "t", "e", "T", "i", "m", "e", ":", " ">>
               \o entry.date_label \o <<" ">> \o entry.time_label)
    ELSE <<>>

\* the TXT file: the total of the header and one numbered block per entry
TxtDump(entries) ==
    [total |-> Len(entries),
     blocks |-> [i \in 1..Len(entries) |->
                   [idx |-> i, id |-> entries[i].id,
                    datetime |-> TxtDateTime(entries[i]),
                    text |-> entries[i].text]]]

\* grouped.setdefault(key, []).append(item)
SetDefaultAppend(grouped, key, item) ==
    IF key \in DOMAIN grouped
    THEN [grouped EXCEPT ![key] = Append(@, item)]
    ELSE [k \in DOMAIN grouped \cup {key} |-> IF k = key THEN <<item>> ELSE grouped[k]]

\* the grouping step filing an unresolved entry under a day of its own
GroupEntryUnresolvedToo(grouped, entry, resolved) ==
    IF resolved = None
    THEN SetDefaultAppend(grouped, <<0, 0, 0>>, [hm |-> <<"0", "0", ":", "0", "0">>, entry |-> entry])
    ELSE SetDefaultAppend(grouped, <<resolved.year, resolved.month, resolved.day>>,
                          [hm |-> resolved.hm, entry |-> entry])

\* one iteration of the grouping loop: an unresolved entry is passed over
GroupEntry(grouped, entry, resolved) ==
    IF resolved = None THEN grouped
    ELSE SetDefaultAppend(grouped, <<resolved.year, resolved.month, resolved.day>>,
                          [hm |-> resolved.hm, entry |-> entry])

RECURSIVE GroupFrom(_, _)
GroupFrom(entries, grouped) ==
    IF entries = <<>> THEN grouped
    ELSE GroupFrom(Tail(entries),
                   GroupEntry(grouped, Head(entries),
                              parse_entry_datetime_parts(Head(entries))))

Grouped(entries) == GroupFrom(entries, <<>>)

KeyLess(a, b) ==
    \/ a[1] < b[1]
    \/ a[1] = b[1] /\ a[2] < b[2]
    \/ a[1] = b[1] /\ a[2] = b[2] /\ a[3] < b[3]

RECURSIVE SortedKeys(_)
\* the keys of sorted(grouped.items())
SortedKeys(keys) ==
    IF keys = {} THEN <<>>
    ELSE LET least == CHOOSE k \in keys : \A o \in keys \ {k} : KeyLess(k, o)
         IN  <<least>> \o SortedKeys(keys \ {least})

\* key=lambda x: x[0], compared by list.sort
\* a comparison that also puts an item before one of equal hm
HmBeforeOrEqual(a, b) == ~StrLess(b.hm, a.hm)

HmBefore(a, b) == StrLess(a.hm, b.hm)

RECURSIVE InsertItem(_, _)
InsertItem(sorted, item) ==
    IF sorted = <<>> THEN <<item>>
    ELSE IF HmBefore(item, sorted[Len(sorted)]) 
         THEN Append(InsertItem(SubSeq(sorted, 1, Len(sorted) - 1), item), sorted[Len(sorted)])
         ELSE Append(sorted, item)

RECURSIVE SortItems(_)
\* items.sort(key=...): a stable sort
SortItems(items) ==
    IF items = <<>> THEN <<>>
    ELSE InsertItem(SortItems(SubSeq(items, 1, Len(items) - 1)), items[Len(items)])

\* os.path.join(md_root_dir, year_s, month_s, f"{year_s}-{month_s}-{day_s}.md")
DayPath(key) ==
    LET year_s == Pad4(key[1])
        month_s == Pad2(key[2])
        day_s == Pad2(key[3])
    IN  <<year_s, month_s, year_s \o <<"-">> \o month_s \o <<"-">> \o day_s>>

\* what is written into one day file: heading, count line, the sections
DayFile(key, items) ==
    LET sorted == SortItems(items)
    IN  [heading |-> DayPath(key)[3],
         count |-> Len(sorted),
         sections |-> [i \in 1..Len(sorted) |->
                         [time_label |-> sorted[i].hm, entry |-> sorted[i].entry]]]

\* The markdown root: whether the directory exists and its day files by path.
MdRoot(exists, files) == [exists |-> exists, files |-> files]

RECURSIVE WriteDayFiles(_, _, _, _)
\* the first n iterations of the loop that writes the day files
WriteDayFiles(files, grouped, keys, n) ==
    IF n = 0 \/ keys = <<>> THEN files
    ELSE LET path == DayPath(Head(keys))
             body == DayFile(Head(keys), grouped[Head(keys)])
         IN  WriteDayFiles(
               [p \in DOMAIN files \cup {path} |-> IF p = path THEN body ELSE files[p]],
               grouped, Tail(keys), n - 1)

\* shutil.rmtree(md_root_dir)
RemoveTree(root) == MdRoot(FALSE, <<>>)

\* os.makedirs(md_root_dir, exist_ok=True)
MakeDirs(root) == MdRoot(TRUE, root.files)

\* write_split_markdown without the removal of the old root
write_split_markdown_keeping(entries, root, n) ==
    LET grouped == Grouped(entries)
    IN  MdRoot(TRUE, WriteDayFiles(MakeDirs(root).files, grouped,
                                   SortedKeys(DOMAIN grouped), n))

\* write_split_markdown up to and including its n-th day file: the root
\* removed if it exists and created again, then the files written
write_split_markdown(entries, root, n) ==
    LET grouped == Grouped(entries)
        cleared == MakeDirs(IF root.exists THEN RemoveTree(root) ELSE root)
    IN  MdRoot(TRUE, WriteDayFiles(cleared.files, grouped, SortedKeys(DOMAIN grouped), n))

\* the file_count it returns
MdFileCount(entries) == Cardinality(DOMAIN Grouped(entries))

\* ================================================================== state
VARIABLES
    pc,           \* where main is: "args", "login", "fetch", "scraped",
                  \* "write_json", "write_txt", "write_md", "exit"
    rc,           \* the value main returned (NoInt while it runs)
    error,        \* what the run reported on stderr (None without an error)
    max_pages,    \* args.max_pages (NoInt when not given)
    split_md,     \* whether the Markdown tree is wanted
    page,         \* scrape_all: page
    all_entries,  \* scrape_all: all_entries
    entries,      \* main: entries, the value scrape_all returned
    requests,     \* the URLs session.get was called with, in order
    served,       \* the documents the site answered with, in order
    unfetched,    \* the list items of the page the site holds after a page
                  \* whose items all yielded no record (<<>>: no such page)
    jsonFile,     \* the file at json_path
    txtFile,      \* the file at txt_path
    mdRoot,       \* the directory tree at md_root_dir
    exported,     \* the last call of write_split_markdown: whether it returned,
                  \* and the entries it was given if it did (None before any call)
    written,      \* the paths of the day files ever present under md_root_dir
    probe,        \* the entry given to parse_entry_datetime_parts
    parsed        \* what parse_entry_datetime_parts returned for it

vars == <<pc, rc, error, max_pages, split_md, page, all_entries, entries,
          requests, served, unfetched, jsonFile, txtFile, mdRoot, exported, written,
          probe, parsed>>

\* ----------------------------------------------------------------- bounds
\* list items the site serves during one run, over all its pages
MaxItems == 3
\* largest --max-pages value tried
MaxPagesArg == 2

\* ----------------------------------------------------------- the site
HeadingText == <<"3", YUE, GLYPH, "5", RI, GLYPH, "2", "0", "2", "6">>
Href1 == <<"/", "a", "/", "a", "1">>
Href2 == <<"/", "a", "/", "b", "2">>
Local0900 == <<"2", "0", "2", "6", "-", "0", "3", "-", "0", "5", " ", "0", "9", ":", "0", "0">>
Local0715 == <<"2", "0", "2", "6", "-", "0", "3", "-", "0", "6", " ", "0", "7", ":", "1", "5">>

\* The list items the modelled site can serve: a date heading, a diary of
\* id a1 with a structured timestamp, another diary of the same id a1 with
\* other content and only a short time text, a diary of id b2 on another
\* day, and a diary without the detail link.
ItemPool ==
    { Li({"day-cut"}, HeadingText, FALSE, <<>>, NoTime, ""),
      Li({"diary"}, <<>>, TRUE, Href1, TimeTag(Local0900, <<"0", "9", ":", "0", "0">>), "first"),
      Li({"diary"}, <<>>, TRUE, Href1, TimeTag(<<>>, <<" ", "8", ":", "3", "0">>), "second"),
      Li({"diary"}, <<>>, TRUE, Href2, TimeTag(Local0715, <<"0", "7", ":", "1", "5">>), "third"),
      Li({"diary"}, <<>>, FALSE, <<>>, NoTime, "nolink") }

\* the item lists of at most n items; a page opens with its date heading if
\* it has one
ItemSeqs(n) ==
    UNION { {items \in [1..k -> ItemPool] :
                \A i \in 2..k : "day-cut" \notin items[i].classes} : k \in 0..n }

\* what the site may answer when at most n more list items may be served
Responses(n) ==
    { Html(FALSE, {}, FALSE, <<>>),
      Html(TRUE, LoginPhrases, FALSE, <<>>),
      Html(TRUE, {"sign_in"}, FALSE, <<>>) }
    \cup { Html(TRUE, {}, TRUE, items) : items \in ItemSeqs(n) }

RECURSIVE ItemsServed(_)
ItemsServed(docs) ==
    IF docs = <<>> THEN 0 ELSE Len(Head(docs).items) + ItemsServed(Tail(docs))

\* what the site may hold on the page after one that had list items
LaterPages == {<<>>} \cup {<<li>> : li \in {i \in ItemPool : i.comment = "third"}}

StaleDay == <<<<"2", "0", "2", "5">>, <<"0", "1">>,
              <<"2", "0", "2", "5", "-", "0", "1", "-", "0", "1">>>>
StaleRoot == MdRoot(TRUE, [p \in {StaleDay} |-> [heading |-> StaleDay[3], count |-> 0, sections |-> <<>>]])
NoRoot == MdRoot(FALSE, <<>>)

\* ================================================================== main
Init ==
    /\ pc = "args"
    /\ rc = NoInt
    /\ error = None
    /\ max_pages \in {NoInt} \cup {Some(n) : n \in 0..MaxPagesArg}
    /\ split_md \in BOOLEAN
    /\ page = 1
    /\ all_entries = <<>>
    /\ entries = <<>>
    /\ requests = <<>>
    /\ served = <<>>
    /\ unfetched = <<>>
    /\ jsonFile = FileOld
    /\ txtFile = FileOld
    /\ mdRoot = StaleRoot
    /\ exported = None
    /\ written = DOMAIN mdRoot.files
    /\ probe = None
    /\ parsed = None

\* return <code>, after the message was printed
Exit(code, message) ==
    /\ pc' = "exit"
    /\ rc' = Some(code)
    /\ error' = message

\* main up to the try block: --max-pages below 1 and unusable credentials,
\* target user or prompts end the run with 2 before anything is fetched
CheckArgs ==
    /\ pc = "args"
    /\ \/ /\ max_pages # NoInt /\ max_pages[1] < 1
          /\ Exit(2, [kind |-> "usage"])
       \/ /\ ~(max_pages # NoInt /\ max_pages[1] < 1)
          /\ \E credentials_ok \in BOOLEAN :
               IF credentials_ok
               THEN pc' = "login" /\ UNCHANGED <<rc, error>>
               ELSE Exit(2, [kind |-> "input"])
    /\ UNCHANGED <<max_pages, split_md, page, all_entries, entries, requests, served, unfetched,
                   jsonFile, txtFile, mdRoot, exported, written, probe, parsed>>

\* login(...): it returns, or raises a requests exception or a RuntimeError
Login ==
    /\ pc = "login"
    /\ \E outcome \in {"ok", "network", "login"} :
         IF outcome = "ok"
         THEN pc' = "fetch" /\ UNCHANGED <<rc, error>>
         ELSE Exit(1, [kind |-> outcome])
    /\ page' = 1
    /\ all_entries' = <<>>
    /\ UNCHANGED <<max_pages, split_md, entries, requests, served, unfetched,
                   jsonFile, txtFile, mdRoot, exported, written, probe, parsed>>

\* One iteration of the while loop of scrape_all.
FetchPage ==
    /\ pc = "fetch"
    /\ \E html \in Responses(MaxItems - ItemsServed(served)) :
         /\ requests' = Append(requests, PageUrl("posts_url", page))
         /\ served' = Append(served, html)
         /\ IF ~html.ok
            THEN /\ Exit(1, [kind |-> "network"])
                 /\ UNCHANGED <<page, all_entries, unfetched>>
            ELSE IF is_login_page(html)
            THEN /\ Exit(1, [kind |-> "session", page |-> page])
                 /\ UNCHANGED <<page, all_entries, unfetched>>
            ELSE LET found == extract_entries_from_page(html)
                 IN  IF found = <<>>
                     THEN /\ pc' = "scraped"
                          /\ unfetched' \in IF html.items = <<>> THEN {<<>>} ELSE LaterPages
                          /\ UNCHANGED <<rc, error, page, all_entries>>
                     ELSE /\ all_entries' = all_entries \o found
                          /\ IF max_pages # NoInt /\ page >= max_pages[1]
                             THEN pc' = "scraped" /\ page' = page
                             ELSE pc' = "fetch" /\ page' = page + 1
                          /\ unfetched' = unfetched
                          /\ UNCHANGED <<rc, error>>
    /\ UNCHANGED <<max_pages, split_md, entries, jsonFile, txtFile, mdRoot,
                   exported, written, probe, parsed>>

\* the return of scrape_all without the emptiness test of main
ReturnEntriesUntested ==
    /\ pc = "scraped"
    /\ entries' = Dedup(all_entries)
    /\ pc' = "write_json"
    /\ UNCHANGED <<rc, error, max_pages, split_md, page, all_entries, requests, served,
                   unfetched, jsonFile, txtFile, mdRoot, exported, written, probe, parsed>>

\* scrape_all after its loop (the dedup) and the emptiness test of main
ReturnEntries ==
    /\ pc = "scraped"
    /\ entries' = Dedup(all_entries)
    /\ IF entries' = <<>>
       THEN Exit(1, [kind |-> "empty"])
       ELSE pc' = "write_json" /\ UNCHANGED <<rc, error>>
    /\ UNCHANGED <<max_pages, split_md, page, all_entries, requests, served, unfetched,
                   jsonFile, txtFile, mdRoot, exported, written, probe, parsed>>

\* write_outputs, the JSON file: open(json_path, "w") truncates the file,
\* json.dump fills it; either may raise OSError
WriteJson ==
    /\ pc = "write_json"
    /\ \E outcome \in {"ok", "open_error", "write_error"} :
         /\ jsonFile' = CASE outcome = "ok" -> FileDone(JsonDump(entries))
                          [] outcome = "open_error" -> jsonFile
                          [] outcome = "write_error" -> FilePartial
         /\ IF outcome = "ok"
            THEN pc' = "write_txt" /\ UNCHANGED <<rc, error>>
            ELSE Exit(1, [kind |-> "write"])
    /\ UNCHANGED <<max_pages, split_md, page, all_entries, entries, requests, served,
                   unfetched, txtFile, mdRoot, exported, written, probe, parsed>>

\* write_outputs, the TXT file, written after the JSON file was closed
WriteTxt ==
    /\ pc = "write_txt"
    /\ \E outcome \in {"ok", "open_error", "write_error"} :
         /\ txtFile' = CASE outcome = "ok" -> FileDone(TxtDump(entries))
                         [] outcome = "open_error" -> txtFile
                         [] outcome = "write_error" -> FilePartial
         /\ IF outcome = "ok"
            THEN IF split_md
                 THEN pc' = "write_md" /\ UNCHANGED <<rc, error>>
                 ELSE Exit(0, None)
            ELSE Exit(1, [kind |-> "write"])
    /\ UNCHANGED <<max_pages, split_md, page, all_entries, entries, requests, served, unfetched,
                   jsonFile, mdRoot, exported, written, probe, parsed>>

\* One call of write_split_markdown: it returns after all its day files, or
\* an OSError ends it while removing the old root or after n day files.
SplitMarkdown(records, n, removed) ==
    LET total == MdFileCount(records)
    IN  /\ mdRoot' = IF removed THEN write_split_markdown(records, mdRoot, n) ELSE mdRoot
        /\ exported' = IF removed /\ n = total
                       THEN [returned |-> TRUE, entries |-> records]
                       ELSE [returned |-> FALSE, entries |-> <<>>]
        /\ written' = written \cup DOMAIN mdRoot'.files

WriteMd ==
    /\ pc = "write_md"
    /\ \E n \in 0..MdFileCount(entries), removed \in BOOLEAN :
         /\ removed \/ (mdRoot.exists /\ n = 0)
         /\ SplitMarkdown(entries, n, removed)
         /\ IF removed /\ n = MdFileCount(entries)
            THEN Exit(0, None)
            ELSE Exit(1, [kind |-> "write"])
    /\ UNCHANGED <<max_pages, split_md, page, all_entries, entries, requests, served, unfetched,
                   jsonFile, txtFile, probe, parsed>>

\* -------------------------------------------- repeated Markdown exports
\* most records given to one call of write_split_markdown
MaxExport == 3

LabelMarch5 == <<"3", YUE, " ", "5", RI, " ", "2", "0", "2", "6">>
Local0830 == <<"2", "0", "2", "6", "-", "0", "3", "-", "0", "5", " ", "0", "8", ":", "3", "0">>

\* Records as scrape_all returns them (ids differ): 09:00 on March 5 by its
\* structured timestamp; 8:30 on March 5 by heading and short time alone;
\* 08:30 on March 5 by its structured timestamp; one on March 6.
RecordPool ==
    { Entry(<<"a", "1">>, LabelMarch5, Local0900, <<"0", "9", ":", "0", "0">>, "r1"),
      Entry(<<"a", "2">>, LabelMarch5, <<>>, <<"8", ":", "3", "0">>, "r2"),
      Entry(<<"a", "3">>, <<>>, Local0830, <<"0", "8", ":", "3", "0">>, "r3"),
      Entry(<<"a", "4">>, <<>>, Local0715, <<"0", "7", ":", "1", "5">>, "r4") }

\* the lists of at most n pool records without a repeated id
RecordLists(n) ==
    UNION { {l \in [1..k -> RecordPool] : \A i, j \in 1..k : i # j => l[i] # l[j]} :
            k \in 0..n }

InitMd ==
    /\ pc = "export"
    /\ rc = NoInt
    /\ error = None
    /\ max_pages = NoInt
    /\ split_md = TRUE
    /\ page = 1
    /\ all_entries = <<>>
    /\ entries = <<>>
    /\ requests = <<>>
    /\ served = <<>>
    /\ unfetched = <<>>
    /\ jsonFile = FileOld
    /\ txtFile = FileOld
    /\ mdRoot \in {NoRoot, StaleRoot}
    /\ exported = None
    /\ written = DOMAIN mdRoot.files
    /\ probe = None
    /\ parsed = None

\* one more export into the same markdown root
ExportMarkdown ==
    /\ pc = "export"
    /\ \E records \in RecordLists(MaxExport) :
         \E n \in 0..MdFileCount(records), removed \in BOOLEAN :
             /\ removed \/ (mdRoot.exists /\ n = 0)
             /\ SplitMarkdown(records, n, removed)
    /\ UNCHANGED <<pc, rc, error, max_pages, split_md, page, all_entries, entries,
                   requests, served, unfetched, jsonFile, txtFile, probe, parsed>>

NextMd == ExportMarkdown

SpecMd == InitMd /\ [][NextMd]_vars

\* ------------------------------------------------- the resolver alone
\* the instants the probes are built from
Instants ==
    { [year |-> 2026, month |-> 3, day |-> 5, hour |-> 8, minute |-> 30],
      [year |-> 2026, month |-> 3, day |-> 5, hour |-> 9, minute |-> 0],
      [year |-> 2025, month |-> 12, day |-> 31, hour |-> 23, minute |-> 5],
      [year |-> 2026, month |-> 11, day |-> 6, hour |-> 8, minute |-> 30] }

TwoDigits(n) == <<DigitChar(n \div 10), DigitChar(n % 10)>>
YearDigits(n) == TwoDigits(n \div 100) \o TwoDigits(n % 100)

\* the title attribute of time.hours as the site can give it
LocalKinds == {"absent", "strict", "wide", "newline", "unpadded", "date_only", "seconds"}

LocalText(t, kind) ==
    LET date == YearDigits(t.year) \o <<"-">> \o TwoDigits(t.month) \o <<"-">> \o TwoDigits(t.day)
        time == TwoDigits(t.hour) \o <<":">> \o TwoDigits(t.minute)
    IN  CASE kind = "absent" -> <<>>
          [] kind = "strict" -> date \o <<" ">> \o time
          [] kind = "wide" -> date \o <<" ", NBSP>> \o time
          [] kind = "newline" -> date \o <<" ">> \o time \o <<NL>>
          [] kind = "unpadded" -> YearDigits(t.year) \o <<"-">> \o ToDigits(t.month) \o <<"-">>
                                   \o ToDigits(t.day) \o <<" ">> \o ToDigits(t.hour)
                                   \o <<":">> \o TwoDigits(t.minute)
          [] kind = "date_only" -> date
          [] kind = "seconds" -> date \o <<" ">> \o time \o <<":", "0", "0">>

\* the cleaned heading text
LabelKinds == {"absent", "plain", "spaced", "weekday", "no_year"}

LabelText(t, kind) ==
    CASE kind = "absent" -> <<>>
      [] kind = "plain" -> ToDigits(t.month) \o <<YUE>> \o ToDigits(t.day) \o <<RI>>
                             \o YearDigits(t.year)
      [] kind = "spaced" -> ToDigits(t.month) \o <<YUE, " ">> \o ToDigits(t.day) \o <<RI, " ">>
                              \o YearDigits(t.year)
      [] kind = "weekday" -> <<"w", " ">> \o ToDigits(t.month) \o <<YUE>> \o ToDigits(t.day)
                               \o <<RI, " ">> \o YearDigits(t.year) \o <<" ", "w">>
      [] kind = "no_year" -> ToDigits(t.month) \o <<YUE>> \o ToDigits(t.day) \o <<RI>>

\* the cleaned text of time.hours
TimeKinds == {"absent", "short", "padded", "suffixed", "words"}

TimeText(t, kind) ==
    CASE kind = "absent" -> <<>>
      [] kind = "short" -> ToDigits(t.hour) \o <<":">> \o TwoDigits(t.minute)
      [] kind = "padded" -> TwoDigits(t.hour) \o <<":">> \o TwoDigits(t.minute)
      [] kind = "suffixed" -> <<"a", "t", " ">> \o ToDigits(t.hour) \o <<":">>
                                \o TwoDigits(t.minute) \o <<" ", "p", "m">>
      [] kind = "words" -> ToDigits(t.hour) \o <<"h">>

\* An entry to resolve, with how it was built: the instant and form of its
\* datetime_local, and the instant and forms of its two labels.
Probe(t1, local, t2, label, time) ==
    [entry |-> Entry(<<"a", "1">>, LabelText(t2, label), LocalText(t1, local),
                     TimeText(t2, time), "probe"),
     local_of |-> t1, local |-> local,
     label_of |-> t2, label |-> label, time |-> time]

InitDate ==
    /\ pc = "resolve"
    /\ rc = NoInt
    /\ error = None
    /\ max_pages = NoInt
    /\ split_md = TRUE
    /\ page = 1
    /\ all_entries = <<>>
    /\ entries = <<>>
    /\ requests = <<>>
    /\ served = <<>>
    /\ unfetched = <<>>
    /\ jsonFile = FileOld
    /\ txtFile = FileOld
    /\ mdRoot = NoRoot
    /\ exported = None
    /\ written = {}
    /\ probe \in { Probe(t1, local, t2, label, time) :
                      t1 \in Instants, local \in LocalKinds,
                      t2 \in Instants, label \in LabelKinds, time \in TimeKinds }
    /\ parsed = None

\* the call parse_entry_datetime_parts(entry)
Resolve ==
    /\ pc = "resolve"
    /\ parsed' = parse_entry_datetime_parts(probe.entry)
    /\ pc' = "resolved"
    /\ UNCHANGED <<rc, error, max_pages, split_md, page, all_entries, entries, requests,
                   served, unfetched, jsonFile, txtFile, mdRoot, exported, written, probe>>

NextDate == Resolve

SpecDate == InitDate /\ [][NextDate]_vars

\* ------------------------------------------------- the extractor alone
\* most list items of the first page given to extract_entries_from_page
MaxPageItems == 3

\* a second date heading, as get_text gives it: a no-break space and a
\* space between day and year
HeadingMarch6 == <<"3", YUE, "6", RI, NBSP, " ", "2", "0", "2", "6">>
LabelMarch6 == <<"3", YUE, "6", RI, " ", "2", "0", "2", "6">>

\* The list items of the pages to extract: two date headings, two diaries
\* with their detail link, and an item that is neither heading nor diary.
PageItemPool ==
    { Li({"day-cut"}, HeadingText, FALSE, <<>>, NoTime, ""),
      Li({"day-cut"}, HeadingMarch6, FALSE, <<>>, NoTime, ""),
      Li({"diary"}, <<>>, TRUE, Href1, TimeTag(Local0900, <<"0", "9", ":", "0", "0">>), "first"),
      Li({"diary"}, <<>>, TRUE, Href2, TimeTag(Local0715, <<"0", "7", ":", "1", "5">>), "third"),
      Li({"ad"}, <<"a", "d">>, TRUE, <<"/", "u", "/", "a", "1">>, NoTime, "other") }

\* every interleaving of at most n pool items
PageItemSeqs(n) == UNION {[1..k -> PageItemPool] : k \in 0..n}

\* The documents to extract: one page, or that page and a following page of
\* at most one item.
PageRuns ==
    { <<Html(TRUE, {}, TRUE, first)>> : first \in PageItemSeqs(MaxPageItems) }
    \cup { <<Html(TRUE, {}, TRUE, first), Html(TRUE, {}, TRUE, second)>> :
               first \in PageItemSeqs(MaxPageItems), second \in PageItemSeqs(1) }

InitExtract ==
    /\ pc = "extract"
    /\ rc = NoInt
    /\ error = None
    /\ max_pages = NoInt
    /\ split_md = TRUE
    /\ page = 1
    /\ all_entries = <<>>
    /\ entries = <<>>
    /\ requests = <<>>
    /\ served = <<>>
    /\ unfetched = <<>>
    /\ jsonFile = FileOld
    /\ txtFile = FileOld
    /\ mdRoot = NoRoot
    /\ exported = None
    /\ written = {}
    /\ probe \in PageRuns
    /\ parsed = <<>>

\* the call extract_entries_from_page(html) for the next page, as scrape_all
\* makes it page after page
ExtractPage ==
    /\ pc = "extract"
    /\ page <= Len(probe)
    /\ parsed' = Append(parsed, extract_entries_from_page(probe[page]))
    /\ page' = page + 1
    /\ UNCHANGED <<pc, rc, error, max_pages, split_md, all_entries, entries, requests,
                   served, unfetched, jsonFile, txtFile, mdRoot, exported, written, probe>>

NextExtract == ExtractPage

SpecExtract == InitExtract /\ [][NextExtract]_vars

Next ==
    \/ CheckArgs
    \/ Login
    \/ FetchPage
    \/ ReturnEntries
    \/ WriteJson
    \/ WriteTxt
    \/ WriteMd

Spec == Init /\ [][Next]_vars

\* ============================================================ properties
\* scrape_all has returned its list to main
ScrapeReturned ==
    \/ pc \in {"write_json", "write_txt", "write_md"}
    \/ pc = "exit" /\ rc = Some(0)
    \/ pc = "exit" /\ rc = Some(1) /\ error.kind \in {"empty", "write"}

RECURSIVE Encountered(_)
\* the records of the fetched pages, concatenated in fetch order
Encountered(docs) ==
    IF docs = <<>> THEN <<>>
    ELSE extract_entries_from_page(Head(docs)) \o Encountered(Tail(docs))

Ids(records) == {records[i].id : i \in 1..Len(records)}

\* the position in records of the first record that carries the id
FirstAt(records, id) ==
    CHOOSE i \in 1..Len(records) :
        /\ records[i].id = id
        /\ \A k \in 1..(i - 1) : records[k].id # id

HasLoginSignature(html) ==
    html.ok /\ {"welcome", "user_or_email", "sign_in"} \subseteq html.phrases

\* no output of the run was written, replaced or removed
OutputsUntouched ==
    /\ jsonFile = FileOld
    /\ txtFile = FileOld
    /\ exported = None
    /\ mdRoot = StaleRoot

\* kept holds every id of seen once, each time the first record of that id,
\* in the order of seen
FirstWins(kept, seen) ==
    /\ Ids(kept) = Ids(seen)
    /\ \A i, j \in 1..Len(kept) : i # j => kept[i].id # kept[j].id
    /\ \A i \in 1..Len(kept) : kept[i] = seen[FirstAt(seen, kept[i].id)]
    /\ \A i, j \in 1..Len(kept) :
           i < j => FirstAt(seen, kept[i].id) < FirstAt(seen, kept[j].id)

\* C1: the list scrape_all returns holds every encountered id exactly once,
\* each kept record is the first encountered record of its id whatever the
\* later ones hold, and the kept records stand in encounter order.
C1_DedupFirstWins == ScrapeReturned => FirstWins(entries, Encountered(served))

\* an id came twice with different content, on two pages, and more than one
\* record was kept
C1_Witness ==
    /\ ScrapeReturned
    /\ Len(entries) >= 2
    /\ Len(served) >= 2
    /\ LET seen == Encountered(served)
       IN  \E i, j \in 1..Len(seen) :
               /\ i < j
               /\ seen[i].id = seen[j].id
               /\ seen[i] # seen[j]
               /\ i <= Len(extract_entries_from_page(served[1]))
               /\ j > Len(extract_entries_from_page(served[1]))

\* C2: a login page fetched as page N ends the run there: it is the last
\* page requested, it is not taken for the end of the pages, the error
\* names page N, and no output file is written or removed.
C2_SessionExpiryAborts ==
    \A n \in 1..Len(served) :
        HasLoginSignature(served[n]) =>
            /\ n = Len(served)
            /\ Len(requests) = n
            /\ pc = "exit"
            /\ rc = Some(1)
            /\ error = [kind |-> "session", page |-> n]
            /\ entries = <<>>
            /\ OutputsUntouched

\* the login page came as page 3, after two pages that yielded records
C2_Witness ==
    /\ Len(served) = 3
    /\ HasLoginSignature(served[3])
    /\ Len(extract_entries_from_page(served[1])) >= 1
    /\ Len(extract_entries_from_page(served[2])) >= 1
    /\ all_entries # <<>>

\* C3 as claimed: at the end of a failed run the JSON file and the TXT file
\* are both untouched or both completely written from the same records.
C3_FailedRunLeavesFilesWhole ==
    (pc = "exit" /\ rc = Some(1)) =>
        \/ jsonFile = FileOld /\ txtFile = FileOld
        \/ /\ jsonFile = FileDone(JsonDump(entries))
           /\ txtFile = FileDone(TxtDump(entries))

IsResolved(entry) == parse_entry_datetime_parts(entry) # None

ResolvedCount(records) == Cardinality({i \in 1..Len(records) : IsResolved(records[i])})

\* the day files that hold a section for the entry
FilesHolding(entry) ==
    {p \in DOMAIN mdRoot.files :
        \E k \in 1..Len(mdRoot.files[p].sections) : mdRoot.files[p].sections[k].entry = entry}

RECURSIVE SumCounts(_)
SumCounts(paths) ==
    IF paths = {} THEN 0
    ELSE LET p == CHOOSE q \in paths : TRUE
         IN  mdRoot.files[p].count + SumCounts(paths \ {p})

\* YYYY, MM, YYYY-MM-DD of a resolved date, written out
PathOf(r) ==
    <<Pad4(r.year), Pad2(r.month),
      Pad4(r.year) \o <<"-">> \o Pad2(r.month) \o <<"-">> \o Pad2(r.day)>>

\* C4: after a successful export with the Markdown tree, JSON and TXT hold
\* all N records, and the tree holds exactly the K resolved ones, each in
\* the single day file of its date; the entry totals sum to K.
C4_MarkdownHoldsResolvedOnly ==
    (pc = "exit" /\ rc = Some(0) /\ split_md) =>
        /\ jsonFile.state = "complete" /\ jsonFile.data = entries
        /\ txtFile.state = "complete"
        /\ txtFile.data.total = Len(entries)
        /\ Len(txtFile.data.blocks) = Len(entries)
        /\ \A i \in 1..Len(entries) : txtFile.data.blocks[i].id = entries[i].id
        /\ \A i \in 1..Len(entries) :
               IF IsResolved(entries[i])
               THEN FilesHolding(entries[i]) = {PathOf(parse_entry_datetime_parts(entries[i]))}
               ELSE FilesHolding(entries[i]) = {}
        /\ \A p \in DOMAIN mdRoot.files :
               /\ mdRoot.files[p].count = Len(mdRoot.files[p].sections)
               /\ \A k \in 1..mdRoot.files[p].count :
                      \E i \in 1..Len(entries) : mdRoot.files[p].sections[k].entry = entries[i]
        /\ SumCounts(DOMAIN mdRoot.files) = ResolvedCount(entries)

\* an export of several records, some resolved and some not
C4_Witness ==
    /\ pc = "exit" /\ rc = Some(0) /\ split_md
    /\ ResolvedCount(entries) >= 1
    /\ ResolvedCount(entries) < Len(entries)

\* the first fetched page extracted to nothing
FirstPageEmpty ==
    /\ Len(served) >= 1
    /\ served[1].ok
    /\ ~HasLoginSignature(served[1])
    /\ extract_entries_from_page(served[1]) = <<>>

\* C8: a scrape of zero records ends the run as a failure that names the
\* empty result, and writes or replaces no output.
C8_EmptyResultIsFailure ==
    (FirstPageEmpty /\ pc # "scraped") =>
        /\ pc = "exit"
        /\ rc = Some(1)
        /\ error = [kind |-> "empty"]
        /\ entries = <<>>
        /\ OutputsUntouched

\* the first page held list items, none of them a diary with its link
C8_Witness ==
    /\ FirstPageEmpty
    /\ pc = "exit"
    /\ served[1].has_list
    /\ served[1].items # <<>>

\* a diary item with its detail link, and one without it
WellFormed(li) ==
    /\ "day-cut" \notin li.classes
    /\ "diary" \in li.classes
    /\ li.anchor
    /\ Len(li.href) >= 3
    /\ SubSeq(li.href, 1, 3) = <<"/", "a", "/">>

Malformed(li) ==
    /\ "day-cut" \notin li.classes
    /\ "diary" \in li.classes
    /\ ~WellFormed(li)

\* the pages the site holds: those served, then the one never requested
SitePages ==
    [i \in 1..Len(served) |-> served[i].items]
        \o (IF unfetched = <<>> THEN <<>> ELSE <<unfetched>>)

RECURSIVE LinkedIds(_)
\* the ids of the well-formed diary items of a list of items, in order
LinkedIds(items) ==
    IF items = <<>> THEN <<>>
    ELSE (IF WellFormed(Head(items)) THEN <<EntryId(Head(items).href)>> ELSE <<>>)
             \o LinkedIds(Tail(items))

RECURSIVE LinkedIdsOfPages(_)
LinkedIdsOfPages(docs) ==
    IF docs = <<>> THEN <<>>
    ELSE LinkedIds(Head(docs).items) \o LinkedIdsOfPages(Tail(docs))

\* C9 as claimed, without a page limit: every well-formed diary item that
\* follows a diary item without its link, on the same page or on any
\* following page of the site, is in the aggregated output.
C9_AllLaterItemsExtracted ==
    (ScrapeReturned /\ max_pages = NoInt) =>
        \A p \in 1..Len(SitePages) : \A q \in 1..Len(SitePages[p]) :
            Malformed(SitePages[p][q]) =>
                \A p2 \in p..Len(SitePages) : \A q2 \in 1..Len(SitePages[p2]) :
                    ((p2 > p \/ q2 > q) /\ WellFormed(SitePages[p2][q2]))
                        => EntryId(SitePages[p2][q2].href) \in Ids(entries)

\* the records accumulated are those of the linked ids, in order, and the
\* returned list holds exactly these ids
ExtractedAre(linked) ==
    /\ [i \in 1..Len(all_entries) |-> all_entries[i].id] = linked
    /\ ScrapeReturned => Ids(entries) = {linked[i] : i \in 1..Len(linked)}

\* C9 as amended: a diary item without its link yields no record and no
\* error, and the records accumulated are exactly those of the well-formed
\* diary items of the pages fetched, in order; the returned list holds
\* exactly their ids.
C9_FetchedPagesFullyExtracted ==
    /\ ExtractedAre(LinkedIdsOfPages(served))
    /\ (served # <<>> /\ \E q \in 1..Len(served[Len(served)].items) :
                              Malformed(served[Len(served)].items[q]))
           => error \in {None, [kind |-> "empty"], [kind |-> "write"]}

\* a diary item without its link stood before a well-formed one on the
\* first page, and a later fetched page held a well-formed one too
C9_Witness ==
    /\ ScrapeReturned
    /\ Len(served) >= 2
    /\ \E q, q2 \in 1..Len(served[1].items) :
           q < q2 /\ Malformed(served[1].items[q]) /\ WellFormed(served[1].items[q2])
    /\ \E q \in 1..Len(served[2].items) : WellFormed(served[2].items[q])
    /\ Len(entries) >= 2

\* a page that ended neither the loop nor the run: it yielded a record
Productive(html) ==
    /\ html.ok
    /\ ~HasLoginSignature(html)
    /\ LinkedIds(IF html.has_list THEN html.items ELSE <<>>) # <<>>

\* C10: the requests are the list URL, then ?page=2, ?page=3, ... without
\* gap or repeat; every page before the last requested one yielded
\* records; the loop is left as soon as a page yields nothing, a fetch
\* fails, the session has expired or max_pages is reached, so the requests
\* never outnumber max_pages.
C10_RequestSequence ==
    /\ Len(requests) = Len(served)
    /\ \A n \in 1..Len(requests) :
           requests[n] = IF n = 1 THEN <<"posts_url">> ELSE <<"posts_url", "?page=", n>>
    /\ \A n \in 1..(Len(served) - 1) : Productive(served[n])
    /\ max_pages # NoInt => Len(requests) <= max_pages[1]
    /\ pc = "fetch" =>
           /\ page = Len(requests) + 1
           /\ served # <<>> => Productive(served[Len(served)])
           /\ max_pages # NoInt => Len(requests) < max_pages[1]

\* three pages were requested without a page limit, then the run ended
C10_Witness ==
    /\ Len(requests) >= 3
    /\ max_pages = NoInt
    /\ pc = "exit"

\* two pages were requested under --max-pages 2, both with records
C10_WitnessLimit ==
    /\ Len(requests) = 2
    /\ max_pages = Some(2)
    /\ pc = "scraped"
    /\ Productive(served[2])

\* minutes since midnight of an HH:MM text
HmValue(hm) == 60 * ToInt(SubSeq(hm, 1, 2)) + ToInt(SubSeq(hm, 4, 5))

PositionIn(records, entry) == CHOOSE i \in 1..Len(records) : records[i] = entry

LastExportReturned == exported # None /\ exported.returned

\* C5: in every day file the sections carry the resolved hm of their entry
\* and stand in ascending hm order; sections of equal hm stand in the order
\* their entries had in the exported list.
C5_DayFileSortedStable ==
    LastExportReturned =>
        \A p \in DOMAIN mdRoot.files :
            LET sections == mdRoot.files[p].sections
            IN  /\ \A i \in 1..Len(sections) :
                       sections[i].time_label = parse_entry_datetime_parts(sections[i].entry).hm
                /\ \A i, j \in 1..Len(sections) :
                       i < j =>
                           /\ HmValue(sections[i].time_label) <= HmValue(sections[j].time_label)
                           /\ HmValue(sections[i].time_label) = HmValue(sections[j].time_label)
                                  => PositionIn(exported.entries, sections[i].entry)
                                         < PositionIn(exported.entries, sections[j].entry)

\* a day file of three sections: two of equal hm, one resolved by each tier,
\* and an entry that the sort moved in front of an earlier one
C5_Witness ==
    /\ LastExportReturned
    /\ \E p \in DOMAIN mdRoot.files :
           LET sections == mdRoot.files[p].sections
           IN  /\ Len(sections) = 3
               /\ sections[1].time_label = sections[2].time_label
               /\ sections[1].entry.datetime_local = <<>>
               /\ sections[2].entry.datetime_local # <<>>
               /\ PositionIn(exported.entries, sections[3].entry) = 1

\* the text HH:MM of an instant
HmOf(t) == TwoDigits(t.hour) \o <<":">> \o TwoDigits(t.minute)

\* whether the datetime_local of the probe has the tier 1 shape: the date,
\* white space, the time, each number in full width
LocalInShape(pr) ==
    \/ pr.local \in {"strict", "wide", "newline"}
    \/ /\ pr.local = "unpadded"
       /\ pr.local_of.month >= 10 /\ pr.local_of.day >= 10 /\ pr.local_of.hour >= 10

\* whether its labels hold a month-day-year heading and an H:MM time
LabelsInShape(pr) ==
    /\ pr.label \in {"plain", "spaced", "weekday"}
    /\ pr.time \in {"short", "padded", "suffixed"}

\* C6: a datetime_local of the tier 1 shape decides alone, whatever the
\* labels say; else a heading with month, day and year plus an H:MM or
\* HH:MM time decide, hour and minute padded to two digits; else the entry
\* is unresolved.  Either way the tuple is that of the instant.
C6_TwoTierResolution ==
    pc = "resolved" =>
        parsed = IF LocalInShape(probe)
                 THEN Resolved(probe.local_of.year, probe.local_of.month,
                               probe.local_of.day, HmOf(probe.local_of))
                 ELSE IF LabelsInShape(probe)
                 THEN Resolved(probe.label_of.year, probe.label_of.month,
                               probe.label_of.day, HmOf(probe.label_of))
                 ELSE None

\* both tiers were present and disagreed, and tier 1 decided
C6_Witness ==
    /\ pc = "resolved"
    /\ probe.local = "strict"
    /\ LabelsInShape(probe)
    /\ probe.time = "short"
    /\ probe.local_of.day # probe.label_of.day
    /\ probe.local_of.hour < 10
    /\ parsed # None
    /\ parsed.day = probe.local_of.day

\* tier 2 decided and padded the hour
C6_WitnessFallback ==
    /\ pc = "resolved"
    /\ probe.local = "absent"
    /\ probe.label = "plain"
    /\ probe.time = "short"
    /\ probe.label_of.hour < 10
    /\ parsed # None
    /\ Len(parsed.hm) = 5

\* the days of the resolved records of a list, written as day file paths
DayPathsOf(records) ==
    {PathOf(parse_entry_datetime_parts(records[i])) :
        i \in {k \in 1..Len(records) : IsResolved(records[k])}}

\* C7: after an export that returned, the day files under the root are
\* exactly those of the resolved days of its records, whatever earlier
\* exports had written there.
C7_TreeIsLatestExport ==
    LastExportReturned =>
        /\ mdRoot.exists
        /\ DOMAIN mdRoot.files = DayPathsOf(exported.entries)

\* an earlier export had written a day file that the latest one, which
\* wrote another day, has no record for
C7_Witness ==
    /\ LastExportReturned
    /\ DOMAIN mdRoot.files # {}
    /\ written \ (DOMAIN mdRoot.files \cup {StaleDay}) # {}

\* the latest export had no resolvable record and emptied the tree
C7_WitnessEmptied ==
    /\ LastExportReturned
    /\ DOMAIN mdRoot.files = {}
    /\ written \ {StaleDay} # {}

\* the positions of the diary items with their detail link, ascending
DiaryPositions(items) ==
    LET at == {q \in 1..Len(items) : WellFormed(items[q])}
    IN  [k \in 1..Cardinality(at) |->
           CHOOSE q \in at : Cardinality({r \in at : r <= q}) = k]

\* the heading texts of the pool as they read once cleaned
CleanedHeading(text) ==
    CASE text = HeadingText -> LabelMarch5
      [] text = HeadingMarch6 -> LabelMarch6

\* the cleaned text of the nearest date heading before position q of the
\* page, empty when no heading stands before it
LabelBefore(items, q) ==
    LET heads == {h \in 1..(q - 1) : "day-cut" \in items[h].classes}
    IN  IF heads = {} THEN <<>>
        ELSE CleanedHeading(items[CHOOSE h \in heads : \A o \in heads : o <= h].text)

\* the records are those of the diary items at the given positions, in
\* order, each labelled by the heading before its item
LabelledBy(records, items, at) ==
    /\ Len(records) = Len(at)
    /\ \A k \in 1..Len(at) :
           /\ records[k].id = EntryId(items[at[k]].href)
           /\ records[k].text = items[at[k]].comment
           /\ records[k].date_label = LabelBefore(items, at[k])

\* C11: the records of a page are those of its diary items, in document
\* order; headings and unclassified items give no record; the date_label
\* of a record is the cleaned text of the nearest date heading before its
\* item on the same page, and empty when no heading stands before it on
\* that page, whatever the page extracted before it held.
C11_DateLabelFromNearestHeading ==
    \A i \in 1..Len(parsed) :
        LabelledBy(parsed[i], probe[i].items, DiaryPositions(probe[i].items))

\* the first page held a diary before its heading and one after it, and
\* the diary of the following page stood before any heading
C11_Witness ==
    /\ Len(parsed) = 2
    /\ Len(parsed[1]) = 2
    /\ parsed[1][1].date_label = <<>>
    /\ parsed[1][2].date_label # <<>>
    /\ Len(parsed[2]) = 1
    /\ parsed[2][1].date_label = <<>>

\* a heading, then an unclassified item, then a diary that the heading labels
C11_WitnessOther ==
    /\ Len(parsed) >= 1
    /\ Len(probe[1].items) = 3
    /\ "day-cut" \in probe[1].items[1].classes
    /\ probe[1].items[2].classes = {"ad"}
    /\ Len(parsed[1]) = 1
    /\ parsed[1][1].date_label = CleanedHeading(probe[1].items[1].text)

\* two different headings stood before a diary: the nearer one labels it
C11_WitnessNearest ==
    /\ Len(parsed) >= 1
    /\ Len(probe[1].items) = 3
    /\ "day-cut" \in probe[1].items[1].classes
    /\ "day-cut" \in probe[1].items[2].classes
    /\ probe[1].items[1] # probe[1].items[2]
    /\ Len(parsed[1]) = 1
    /\ parsed[1][1].date_label = CleanedHeading(probe[1].items[2].text)

====
